---- MODULE Spec2Model ----
(***************************************************************************)
(* Model of the met.no forecast retrieval service (package metgo):        *)
(* MetNoService.Locationforecast with its memory slot, its disk cache      *)
(* files and the conditional HTTP fetch.                                   *)
(*                                                                         *)
(* Time is counted in ticks; a second has TicksPerSec ticks.  time.Now()   *)
(* and every stored time.Time are ticks, while HTTP date headers           *)
(* (RFC 1123) only carry whole seconds.                                    *)
(***************************************************************************)
EXTENDS Integers, FiniteSets, Sequences, TLC

\* ------------------------------------------------------------------ bounds
MaxSec == 2
TicksPerSec == 2
\* The calls that are made where callers share the service.
MaxCalls == 3

Keys == {1, 2}
Callers == {1, 2}
\* The clock runs up to the last tick of second MaxSec.
MaxTime == MaxSec * TicksPerSec + (TicksPerSec - 1)
Seconds == 1..MaxSec

\* ------------------------------------------------------------------ values
\* The zero time.Time{} (IsZero() is true); every real instant is >= 1.
ZeroTime == 0

\* cacheInfo{Expires, LastModified}; cacheInfo{} is the zero value.
cacheInfo(expires, lastModified) == [Expires |-> expires, LastModified |-> lastModified]
ZeroInfo == cacheInfo(ZeroTime, ZeroTime)

\* *LocationforecastResult: nil, a decoded document (identified by the key it
\* was served for and the second it was last modified), or the zero struct
\* that json decoding of "null" leaves behind.
NilDoc == [kind |-> "nil", key |-> 0, ver |-> 0]
ZeroDoc == [kind |-> "zero", key |-> 0, ver |-> 0]
Doc(k, v) == [kind |-> "doc", key |-> k, ver |-> v]

\* A file of the cache directory: missing, or holding the JSON text of a
\* document or of a cacheInfo.
MissingFile == [st |-> "missing", val |-> ZeroDoc, info |-> ZeroInfo]
\* json.MarshalIndent of a document pointer: nil is written as "null", which
\* decodes to the zero struct.
MarshalDoc(d) == [st |-> "ok", val |-> IF d = NilDoc THEN ZeroDoc ELSE d, info |-> ZeroInfo]
\* json.MarshalIndent of a cacheInfo (RFC 3339 with nanoseconds: lossless).
MarshalInfo(i) == [st |-> "ok", val |-> ZeroDoc, info |-> i]

\* An HTTP date header: absent, not an RFC 1123 date, or a date (in seconds).
NoHeader == [st |-> "absent", sec |-> 0]
Malformed == [st |-> "malformed", sec |-> 0]
DateHeader(sec) == [st |-> "date", sec |-> sec]

\* time.Parse(time.RFC1123, v): the instant of a header's second.
ParseRFC1123(sec) == sec * TicksPerSec
\* t.In(GMT).Format(time.RFC1123): the second the instant falls in.
FormatRFC1123(t) == t \div TicksPerSec

\* ------------------------------------------------------------------ state
VARIABLES
    now,                            \* time.Now(), in ticks
    cacheDir,                       \* MetNoService.cacheDir ("" = no disk cache)
    lastLocationforecastResult,     \* MetNoService.lastLocationforecastResult
    lastLocationforecastCacheInfo,  \* MetNoService.lastLocationforecastCacheInfo
    cacheFile,                      \* key -> file metno-<cacheName>.json
    cacheInfoFile,                  \* key -> file metno-<cacheName>-info.json
    keys,                           \* the cache keys (locations) the service is used for
    active,                         \* the callers that use the service
    call,                           \* caller -> its current/last Locationforecast call
    calls,                          \* the number of Locationforecast calls made, where
                                    \* it is counted
    upstream,                       \* the Last-Modified dates the api has sent, per key,
                                    \* where the api is known to keep them in order
    service,                        \* what NewMetNoService was given and returned
    cache,                          \* a Cache[T] in use on its own: a MemoryCache or a DiskCache
    fs,                             \* the files at filepath.Join(CacheDirectory, ...)
    op,                             \* caller -> its current/last operation on cache
    lastSet                         \* key -> the last SetCache on the key, if nothing
                                    \* touched the key since

serviceVars == <<now, cacheDir, lastLocationforecastResult, lastLocationforecastCacheInfo,
                 cacheFile, cacheInfoFile, keys, active, call, calls, upstream>>
configVars == <<service>>
tierVars == <<cache, fs, op, lastSet>>
vars == <<serviceVars, configVars, tierVars>>

\* ------------------------------------------------------------- pure helpers
\* An expiry test that counts the instant of Expires itself as expired.
isExpiredAtOrAfter(checkDate) == now >= checkDate

\* An expiry test that lets an entry live a second longer than its Expires.
isExpiredASecondLate(checkDate) == now > checkDate + TicksPerSec

\* isExpired: time.Now().After(checkDate)
isExpired(checkDate) == now > checkDate

\* readJsonFromFile(filePath, false): an error when the file cannot be opened
\* or decoded (fault), (nil, nil) when it does not exist, the decoded value
\* otherwise.
readJsonFromFile(f, fault) ==
    IF fault THEN [nil |-> TRUE, err |-> TRUE, val |-> ZeroDoc, info |-> ZeroInfo]
    ELSE IF f.st = "missing"
         THEN [nil |-> TRUE, err |-> FALSE, val |-> ZeroDoc, info |-> ZeroInfo]
    ELSE [nil |-> FALSE, err |-> FALSE, val |-> f.val, info |-> f.info]

NoCacheData == [obj |-> NilDoc, info |-> ZeroInfo, err |-> FALSE]
CacheError == [obj |-> NilDoc, info |-> ZeroInfo, err |-> TRUE]

\* A cache read that takes a file it cannot read for a file that is not there.
loadDataFromCacheIgnoringErrors(dir, dataFile, infoFile, fault) ==
    IF dir = "" THEN NoCacheData
    ELSE LET d == readJsonFromFile(dataFile, fault = "data")
             i == readJsonFromFile(infoFile, fault = "info")
         IN IF d.err \/ d.nil \/ i.err \/ i.nil THEN NoCacheData
            ELSE [obj |-> d.val, info |-> i.info, err |-> FALSE]

\* loadDataFromCache: reads the data file, then the info file.  fault says
\* which of the two reads fails ("data", "info") if it is made, or "none".
loadDataFromCache(dir, dataFile, infoFile, fault) ==
    IF dir = "" THEN NoCacheData
    ELSE LET d == readJsonFromFile(dataFile, fault = "data")
             i == readJsonFromFile(infoFile, fault = "info")
         IN IF d.err THEN CacheError
            ELSE IF d.nil THEN NoCacheData
            ELSE IF i.err THEN CacheError
            ELSE IF i.nil THEN NoCacheData
            ELSE [obj |-> d.val, info |-> i.info, err |-> FALSE]

\* The outcome of prepareDataFromCache: the object it returns (NilDoc for
\* nil), whether it returns an error, whether it called setMemCacheFunc and
\* with what, and which cache the returned object came from.
PrepResult(obj, err, setMem, disk, from) ==
    [obj |-> obj, err |-> err, setMem |-> setMem, disk |-> disk, from |-> from]

\* A lookup that reads the disk cache before it looks at the memory cache.
prepareDataFromCacheDiskFirst(memCacheObject, memCacheInfoObject, k, fault) ==
    LET disk == loadDataFromCache(cacheDir, cacheFile[k], cacheInfoFile[k], fault)
        setMem == \/ memCacheObject = NilDoc
                  \/ disk.info.LastModified > memCacheInfoObject.LastModified
    IN IF disk.err THEN PrepResult(NilDoc, TRUE, FALSE, disk, "error")
       ELSE IF memCacheObject # NilDoc /\ ~isExpired(memCacheInfoObject.Expires)
            THEN PrepResult(memCacheObject, FALSE, FALSE, NoCacheData, "memory")
       ELSE IF disk.obj = NilDoc THEN PrepResult(NilDoc, FALSE, FALSE, disk, "none")
       ELSE IF ~isExpired(disk.info.Expires)
            THEN PrepResult(disk.obj, FALSE, setMem, disk, "disk")
       ELSE PrepResult(NilDoc, FALSE, setMem, disk, "none")

\* A lookup that empties the memory cache when the disk cache cannot be read.
prepareDataFromCacheClearingOnError(memCacheObject, memCacheInfoObject, k, fault) ==
    IF memCacheObject # NilDoc /\ ~isExpired(memCacheInfoObject.Expires)
    THEN PrepResult(memCacheObject, FALSE, FALSE, NoCacheData, "memory")
    ELSE LET disk == loadDataFromCache(cacheDir, cacheFile[k], cacheInfoFile[k], fault)
             setMem == \/ memCacheObject = NilDoc
                       \/ disk.info.LastModified > memCacheInfoObject.LastModified
         IN IF disk.err THEN PrepResult(NilDoc, TRUE, TRUE, disk, "error")
            ELSE IF disk.obj = NilDoc THEN PrepResult(NilDoc, FALSE, FALSE, disk, "none")
            ELSE IF ~isExpired(disk.info.Expires)
                 THEN PrepResult(disk.obj, FALSE, setMem, disk, "disk")
            ELSE PrepResult(NilDoc, FALSE, setMem, disk, "none")

prepareDataFromCache(memCacheObject, memCacheInfoObject, k, fault) ==
    IF memCacheObject # NilDoc /\ ~isExpired(memCacheInfoObject.Expires)
    THEN PrepResult(memCacheObject, FALSE, FALSE, NoCacheData, "memory")
    ELSE LET disk == loadDataFromCache(cacheDir, cacheFile[k], cacheInfoFile[k], fault)
             setMem == \/ memCacheObject = NilDoc
                       \/ disk.info.LastModified > memCacheInfoObject.LastModified
         IN IF disk.err THEN PrepResult(NilDoc, TRUE, FALSE, disk, "error")
            ELSE IF disk.obj = NilDoc THEN PrepResult(NilDoc, FALSE, FALSE, disk, "none")
            ELSE IF ~isExpired(disk.info.Expires)
                 THEN PrepResult(disk.obj, FALSE, setMem, disk, "disk")
            ELSE PrepResult(NilDoc, FALSE, setMem, disk, "none")

\* ------------------------------------------------------------ loadDataFromApi
\* The If-Modified-Since request header loadDataFromApi sets.
IfModifiedSince(lastCachedData, lastCacheInfo) ==
    IF lastCacheInfo.LastModified # ZeroTime /\ lastCachedData # NilDoc
    THEN DateHeader(FormatRFC1123(lastCacheInfo.LastModified))
    ELSE NoHeader

\* What http.DefaultClient.Do can yield for a request for key k: a transport
\* error, or a response with a status, the two date headers and a body.  A
\* Last-Modified date is never in the future.  Fields the code cannot look at
\* (the dates of a response with a defective header, the body of a response
\* that is not 2xx) take one value only.
TransportError ==
    [transport |-> TRUE, status |-> 0, expires |-> NoHeader, lastModified |-> NoHeader,
     bodyOk |-> FALSE, body |-> NilDoc]

Response(st, e, lm, ok, k) ==
    [transport |-> FALSE, status |-> st, expires |-> e, lastModified |-> lm,
     bodyOk |-> ok, body |-> IF ok THEN Doc(k, lm.sec) ELSE NilDoc]

PastSeconds == {x \in Seconds : ParseRFC1123(x) <= now}
Statuses == {200, 304, 500}

Responses(k) ==
    {TransportError}
    \cup {Response(st, DateHeader(e), DateHeader(lm), st = 200, k) :
            st \in {200, 304}, e \in Seconds, lm \in PastSeconds}
    \cup {Response(200, DateHeader(1), DateHeader(1), FALSE, k)}
    \cup {Response(500, DateHeader(1), DateHeader(1), FALSE, k)}
    \cup {Response(st, h[1], h[2], st = 200, k) :
            st \in Statuses,
            h \in {<<NoHeader, NoHeader>>, <<NoHeader, DateHeader(1)>>,
                   <<Malformed, DateHeader(1)>>, <<DateHeader(1), NoHeader>>,
                   <<DateHeader(1), Malformed>>}}

\* The calls are not counted, or they are and no more than MaxCalls are made.
NotCounted == [counted |-> FALSE, n |-> 0]
Counted == [counted |-> TRUE, n |-> 0]
MoreCalls == calls.counted => calls.n < MaxCalls
Called == IF calls.counted THEN [calls EXCEPT !.n = @ + 1] ELSE calls

\* The api may send Last-Modified dates in any order (AnyOrder), or, for each
\* key, never a date older than one it sent before for the key (InOrder, with
\* the latest date sent for each key).
AnyOrder == [inOrder |-> FALSE, lastModified |-> [k \in Keys |-> 0]]
InOrder == [inOrder |-> TRUE, lastModified |-> [k \in Keys |-> 0]]
KeepsOrder(resp, k) ==
    (upstream.inOrder /\ resp.lastModified.st = "date") =>
        resp.lastModified.sec >= upstream.lastModified[k]
Sent(resp, k) ==
    IF upstream.inOrder /\ resp.lastModified.st = "date"
    THEN [upstream EXCEPT !.lastModified[k] = resp.lastModified.sec]
    ELSE upstream

\* The upstream answers 304 only to a conditional request, and only with a
\* Last-Modified that is not after the date it was asked about.
WellFormed(resp, ims) ==
    resp.status = 304 =>
        /\ ims # NoHeader
        /\ resp.lastModified.st = "date" => resp.lastModified.sec <= ims.sec

ApiError(err, code) == [obj |-> NilDoc, info |-> ZeroInfo, err |-> err, code |-> code]
ApiData(obj, info) == [obj |-> obj, info |-> info, err |-> "", code |-> 0]

\* A response handling that decodes the empty body of a 304 into a zero
\* document instead of keeping the cached one.
HandleResponseReplaceOn304(resp, lastCachedData) ==
    IF resp.transport THEN ApiError("transport", 0)
    ELSE IF resp.expires.st = "absent" THEN ApiError("no Expires header", 0)
    ELSE IF resp.expires.st = "malformed" THEN ApiError("parse Expires", 0)
    ELSE IF resp.lastModified.st = "absent" THEN ApiError("no Last-Modified header", 0)
    ELSE IF resp.lastModified.st = "malformed" THEN ApiError("parse Last-Modified", 0)
    ELSE LET info == cacheInfo(ParseRFC1123(resp.expires.sec),
                               ParseRFC1123(resp.lastModified.sec))
         IN IF resp.status = 304 THEN ApiData(ZeroDoc, info)
            ELSE IF resp.status >= 200 /\ resp.status < 300
                 THEN IF resp.bodyOk THEN ApiData(resp.body, info)
                      ELSE ApiError("decode", 0)
            ELSE ApiError("status", resp.status)

\* A response handling that goes on without a document when the body of a
\* 2xx response cannot be decoded.
HandleResponseIgnoringDecodeError(resp, lastCachedData) ==
    IF resp.transport THEN ApiError("transport", 0)
    ELSE IF resp.expires.st = "absent" THEN ApiError("no Expires header", 0)
    ELSE IF resp.expires.st = "malformed" THEN ApiError("parse Expires", 0)
    ELSE IF resp.lastModified.st = "absent" THEN ApiError("no Last-Modified header", 0)
    ELSE IF resp.lastModified.st = "malformed" THEN ApiError("parse Last-Modified", 0)
    ELSE LET info == cacheInfo(ParseRFC1123(resp.expires.sec),
                               ParseRFC1123(resp.lastModified.sec))
         IN IF resp.status = 304 THEN ApiData(lastCachedData, info)
            ELSE IF resp.status >= 200 /\ resp.status < 300
                 THEN ApiData(resp.body, info)
            ELSE ApiError("status", resp.status)

\* A response handling that makes up the dates a response does not give: an
\* expiry one second from now, and the zero time as the modification date.
HandleResponseDefaultExpiry(resp, lastCachedData) ==
    IF resp.transport THEN ApiError("transport", 0)
    ELSE LET info == cacheInfo(IF resp.expires.st = "date"
                               THEN ParseRFC1123(resp.expires.sec)
                               ELSE now + TicksPerSec,
                               IF resp.lastModified.st = "date"
                               THEN ParseRFC1123(resp.lastModified.sec)
                               ELSE ZeroTime)
         IN IF resp.status = 304 THEN ApiData(lastCachedData, info)
            ELSE IF resp.status >= 200 /\ resp.status < 300
                 THEN IF resp.bodyOk THEN ApiData(resp.body, info)
                      ELSE ApiError("decode", 0)
            ELSE ApiError("status", resp.status)

\* A response handling that takes a failed status for a 304.
HandleResponseFailedStatusAs304(resp, lastCachedData) ==
    IF resp.transport THEN ApiError("transport", 0)
    ELSE IF resp.expires.st = "absent" THEN ApiError("no Expires header", 0)
    ELSE IF resp.expires.st = "malformed" THEN ApiError("parse Expires", 0)
    ELSE IF resp.lastModified.st = "absent" THEN ApiError("no Last-Modified header", 0)
    ELSE IF resp.lastModified.st = "malformed" THEN ApiError("parse Last-Modified", 0)
    ELSE LET info == cacheInfo(ParseRFC1123(resp.expires.sec),
                               ParseRFC1123(resp.lastModified.sec))
         IN IF resp.status >= 200 /\ resp.status < 300
            THEN IF resp.bodyOk THEN ApiData(resp.body, info)
                 ELSE ApiError("decode", 0)
            ELSE ApiData(lastCachedData, info)

\* loadDataFromApi after the request was sent: the date headers first, then
\* the status.
HandleResponse(resp, lastCachedData) ==
    IF resp.transport THEN ApiError("transport", 0)
    ELSE IF resp.expires.st = "absent" THEN ApiError("no Expires header", 0)
    ELSE IF resp.expires.st = "malformed" THEN ApiError("parse Expires", 0)
    ELSE IF resp.lastModified.st = "absent" THEN ApiError("no Last-Modified header", 0)
    ELSE IF resp.lastModified.st = "malformed" THEN ApiError("parse Last-Modified", 0)
    ELSE LET info == cacheInfo(ParseRFC1123(resp.expires.sec),
                               ParseRFC1123(resp.lastModified.sec))
         IN IF resp.status = 304 THEN ApiData(lastCachedData, info)
            ELSE IF resp.status >= 200 /\ resp.status < 300
                 THEN IF resp.bodyOk THEN ApiData(resp.body, info)
                      ELSE ApiError("decode", 0)
            ELSE ApiError("status", resp.status)

\* ---------------------------------------------------------------- the calls
NoResponse ==
    [transport |-> FALSE, status |-> 0, expires |-> NoHeader, lastModified |-> NoHeader,
     bodyOk |-> FALSE, body |-> NilDoc]

\* The record of a caller's Locationforecast call: where the call is (pc:
\* "idle" before any call, "api" and "wait" during the fetch, "done" once it
\* returned), its key, the key and the fetched Expires of the caller's previous
\* call if that call returned a fetched document (prev), what the memory slot
\* held and
\* which disk read was going to fail when the call was made (pre*, fault),
\* the request it sent (requests, ims, prior, priorInfo), the response it
\* got, the result of the disk update (write) and what it returned (result,
\* err and the status code the error carries; from tells where the result
\* came from).
NoPrevious == [key |-> 0, expires |-> ZeroTime]

IdleCall ==
    [pc |-> "idle", key |-> 0, prev |-> NoPrevious, from |-> "", fault |-> "none", preNow |-> 0,
     preMem |-> NilDoc, preMemInfo |-> ZeroInfo,
     requests |-> 0, ims |-> NoHeader, prior |-> NilDoc, priorInfo |-> ZeroInfo,
     resp |-> NoResponse, write |-> "", result |-> NilDoc, err |-> "", code |-> 0]

NewCall(p, k, fault) ==
    [IdleCall EXCEPT !.key = k, !.fault = fault, !.preNow = now,
                     !.prev = IF call[p].from = "api"
                              THEN [key |-> call[p].key,
                                    expires |-> ParseRFC1123(call[p].resp.expires.sec)]
                              ELSE NoPrevious,
                     !.preMem = lastLocationforecastResult,
                     !.preMemInfo = lastLocationforecastCacheInfo]

NoCallRunning == \A p \in Callers : call[p].pc \in {"idle", "done"}
\* What the callers remember of their last calls is dropped when the service's
\* state is changed from outside.
Forgotten == [p \in Callers |-> IdleCall]

\* ------------------------------------------------- the caches of metgo_cache.go
\* A Go map: a function on the keys it has.  (A nil map reads as an empty one,
\* and makeSureMapIsInitialized replaces it by an empty one before any access.)
EmptyMap == << >>
MapGet(m, k, zero) == IF k \in DOMAIN m THEN m[k] ELSE zero
\* A map assignment that keeps the value a key already has.
MapSetIfAbsent(m, k, v) ==
    [x \in DOMAIN m \cup {k} |-> IF x = k /\ k \notin DOMAIN m THEN v ELSE m[x]]

MapSet(m, k, v) == [x \in DOMAIN m \cup {k} |-> IF x = k THEN v ELSE m[x]]
MapDelete(m, k) == [x \in DOMAIN m \ {k} |-> m[x]]

NewMemoryCache ==
    [impl |-> "MemoryCache", CacheObject |-> EmptyMap, CacheInfoObject |-> EmptyMap]
NewDiskCache(dir) == [impl |-> "DiskCache", CacheDirectory |-> dir]
NoCache == [impl |-> "none"]

\* A file whose content json cannot decode.
CorruptFile == [st |-> "corrupt", val |-> ZeroDoc, info |-> ZeroInfo]
\* The files metno-<cacheName>.json (data) and metno-<cacheName>-info.json
\* (info) of one directory, and whether the directory refuses removals.
NoFiles ==
    [data |-> [k \in Keys |-> MissingFile], info |-> [k \in Keys |-> MissingFile],
     readOnly |-> FALSE]

\* The record of a caller's operation on the cache: its name, its arguments,
\* where it is ("set2": a MemoryCache.SetCache between its two assignments)
\* and what it returned.
IdleOp ==
    [pc |-> "idle", name |-> "", key |-> 0, obj |-> NilDoc, info |-> ZeroInfo,
     res |-> NoCacheData]
NoOps == [p \in Callers |-> IdleOp]
NeverSet == [st |-> "none", obj |-> NilDoc, info |-> ZeroInfo]

\* The caches are not used on their own while the service is modelled.
NoTierUse ==
    /\ cache = NoCache
    /\ fs = NoFiles
    /\ op = NoOps
    /\ lastSet = [k \in Keys |-> NeverSet]

\* NewMetNoService's siteName check.
emptySiteNameAllowed(siteName) == TRUE

siteNameDefined(siteName) == siteName # ""

SiteNames == {"", "https://github.com/Roemer/metgo"}
NotConstructed == [st |-> "none", siteName |-> ""]
\* What NewMetNoService(siteName, cacheDirectory) returns: a service, or an
\* error and no service.
Constructed(siteName) ==
    [st |-> IF siteNameDefined(siteName) THEN "service" ELSE "error", siteName |-> siteName]

Init ==
    /\ service = Constructed("https://github.com/Roemer/metgo")
    /\ NoTierUse
    /\ now = TicksPerSec
    /\ cacheDir \in {"", ".metno-cache"}
    /\ lastLocationforecastResult = NilDoc
    /\ lastLocationforecastCacheInfo = ZeroInfo
    /\ cacheFile = [k \in Keys |-> MissingFile]
    /\ cacheInfoFile = [k \in Keys |-> MissingFile]
    /\ keys = {1}
    /\ active = {1}
    /\ call = [p \in Callers |-> IdleCall]
    /\ upstream = AnyOrder
    /\ calls = NotCounted

\* The service is used for two locations.
InitKeys ==
    /\ service = Constructed("https://github.com/Roemer/metgo")
    /\ NoTierUse
    /\ now = TicksPerSec
    /\ cacheDir \in {"", ".metno-cache"}
    /\ lastLocationforecastResult = NilDoc
    /\ lastLocationforecastCacheInfo = ZeroInfo
    /\ cacheFile = [k \in Keys |-> MissingFile]
    /\ cacheInfoFile = [k \in Keys |-> MissingFile]
    /\ keys = Keys
    /\ active = {1}
    /\ call = [p \in Callers |-> IdleCall]
    /\ upstream = AnyOrder
    /\ calls = NotCounted

\* The disk reads that can fail in a call for key k: none without a cache
\* directory, and the info file is only read when the data file exists.
ReadFaults(k) ==
    IF cacheDir = "" THEN {"none"}
    ELSE IF cacheFile[k].st = "missing" THEN {"none", "data"}
    ELSE {"none", "data", "info"}

\* Locationforecast up to the end of the cache lookup: prepareDataFromCache
\* with the memory slot as it is now, and the return of a cached object or of
\* an error.  Otherwise the call goes on to the api.
Locationforecast(p, k) ==
    /\ service.st = "service"
    /\ p \in active
    /\ k \in keys
    /\ call[p].pc \in {"idle", "done"}
    /\ MoreCalls
    /\ calls' = Called
    /\ \E fault \in ReadFaults(k) :
        LET r == prepareDataFromCache(lastLocationforecastResult,
                                      lastLocationforecastCacheInfo, k, fault)
        IN /\ lastLocationforecastResult' =
                  IF r.setMem THEN r.disk.obj ELSE lastLocationforecastResult
           /\ lastLocationforecastCacheInfo' =
                  IF r.setMem THEN r.disk.info ELSE lastLocationforecastCacheInfo
           /\ call' = [call EXCEPT ![p] =
                  IF r.err
                  THEN [NewCall(p, k, fault) EXCEPT !.pc = "done", !.from = "error",
                                                 !.err = "cache"]
                  ELSE IF r.obj # NilDoc
                       THEN [NewCall(p, k, fault) EXCEPT !.pc = "done", !.from = r.from,
                                                      !.result = r.obj]
                  ELSE [NewCall(p, k, fault) EXCEPT !.pc = "api"]]
    /\ UNCHANGED <<now, cacheDir, cacheFile, cacheInfoFile, keys, active, upstream>>
    /\ UNCHANGED <<configVars, tierVars>>

\* A loadDataFromApi that waits while another caller's request for the key is
\* in flight.
SendRequestSingleFlight(p) ==
    /\ call[p].pc = "api"
    /\ \A q \in Callers \ {p} : ~(call[q].pc = "wait" /\ call[q].key = call[p].key)
    /\ call' = [call EXCEPT ![p].pc = "wait",
                            ![p].requests = @ + 1,
                            ![p].prior = lastLocationforecastResult,
                            ![p].priorInfo = lastLocationforecastCacheInfo,
                            ![p].ims = IfModifiedSince(lastLocationforecastResult,
                                                       lastLocationforecastCacheInfo)]
    /\ UNCHANGED <<now, cacheDir, lastLocationforecastResult,
                   lastLocationforecastCacheInfo, cacheFile, cacheInfoFile, keys, active,
                   calls, upstream>>
    /\ UNCHANGED <<configVars, tierVars>>

\* loadDataFromApi up to http.DefaultClient.Do: the request is built from the
\* memory slot as it is now and sent.
SendRequest(p) ==
    /\ call[p].pc = "api"
    /\ call' = [call EXCEPT ![p].pc = "wait",
                            ![p].requests = @ + 1,
                            ![p].prior = lastLocationforecastResult,
                            ![p].priorInfo = lastLocationforecastCacheInfo,
                            ![p].ims = IfModifiedSince(lastLocationforecastResult,
                                                       lastLocationforecastCacheInfo)]
    /\ UNCHANGED <<now, cacheDir, lastLocationforecastResult,
                   lastLocationforecastCacheInfo, cacheFile, cacheInfoFile, keys, active,
                   calls, upstream>>
    /\ UNCHANGED <<configVars, tierVars>>

\* updateDiskCache: saveResult, then saveCacheInfo.  Either write can fail
\* (w); a failed write leaves its file as it was, and after a failed
\* saveResult saveCacheInfo is not called.
DiskWrites == {"ok", "failResult", "failInfo"}

saveResult(files, k, obj, w) ==
    IF cacheDir = "" \/ w = "failResult" THEN files
    ELSE [files EXCEPT ![k] = MarshalDoc(obj)]

\* A disk update that leaves the info file as it was.
saveCacheInfoSkipped(files, k, info, w) == files

saveCacheInfo(files, k, info, w) ==
    IF cacheDir = "" \/ w # "ok" THEN files
    ELSE [files EXCEPT ![k] = MarshalInfo(info)]

updateDiskCacheFails(w) == cacheDir # "" /\ w # "ok"

\* A Locationforecast that goes back to loadDataFromApi when the fetch failed.
ReceiveResponseRetrying(p) ==
    /\ call[p].pc = "wait"
    /\ \E resp \in Responses(call[p].key),
          w \in IF cacheDir = "" THEN {"ok"} ELSE DiskWrites :
        /\ WellFormed(resp, call[p].ims)
        /\ KeepsOrder(resp, call[p].key)
        /\ upstream' = Sent(resp, call[p].key)
        /\ UNCHANGED calls
        /\ LET r == HandleResponse(resp, call[p].prior)
               k == call[p].key
           IN IF r.err # ""
              THEN /\ w = "ok"
                   /\ call' = [call EXCEPT ![p].pc = "api", ![p].resp = resp]
                   /\ UNCHANGED <<lastLocationforecastResult,
                                  lastLocationforecastCacheInfo, cacheFile, cacheInfoFile>>
              ELSE /\ lastLocationforecastResult' = r.obj
                   /\ lastLocationforecastCacheInfo' = r.info
                   /\ cacheFile' = saveResult(cacheFile, k, r.obj, w)
                   /\ cacheInfoFile' = saveCacheInfo(cacheInfoFile, k, r.info, w)
                   /\ call' = [call EXCEPT ![p] =
                          IF updateDiskCacheFails(w)
                          THEN [@ EXCEPT !.pc = "done", !.from = "error", !.resp = resp,
                                         !.write = w, !.err = "update"]
                          ELSE [@ EXCEPT !.pc = "done", !.from = "api", !.resp = resp,
                                         !.write = w, !.result = r.obj]]
    /\ UNCHANGED <<now, cacheDir, keys, active>>
    /\ UNCHANGED <<configVars, tierVars>>

\* A Locationforecast that updates the memory cache after the disk cache, and
\* only when the disk cache was updated.
ReceiveResponseDiskFirst(p) ==
    /\ call[p].pc = "wait"
    /\ \E resp \in Responses(call[p].key),
          w \in IF cacheDir = "" THEN {"ok"} ELSE DiskWrites :
        /\ WellFormed(resp, call[p].ims)
        /\ KeepsOrder(resp, call[p].key)
        /\ upstream' = Sent(resp, call[p].key)
        /\ UNCHANGED calls
        /\ LET r == HandleResponse(resp, call[p].prior)
               k == call[p].key
           IN IF r.err # ""
              THEN /\ w = "ok"
                   /\ call' = [call EXCEPT ![p].pc = "done", ![p].from = "error",
                                           ![p].resp = resp, ![p].err = r.err,
                                           ![p].code = r.code]
                   /\ UNCHANGED <<lastLocationforecastResult,
                                  lastLocationforecastCacheInfo, cacheFile, cacheInfoFile>>
              ELSE /\ cacheFile' = saveResult(cacheFile, k, r.obj, w)
                   /\ cacheInfoFile' = saveCacheInfo(cacheInfoFile, k, r.info, w)
                   /\ IF updateDiskCacheFails(w)
                      THEN /\ UNCHANGED <<lastLocationforecastResult,
                                          lastLocationforecastCacheInfo>>
                           /\ call' = [call EXCEPT ![p].pc = "done", ![p].from = "error",
                                                   ![p].resp = resp, ![p].write = w,
                                                   ![p].err = "update"]
                      ELSE /\ lastLocationforecastResult' = r.obj
                           /\ lastLocationforecastCacheInfo' = r.info
                           /\ call' = [call EXCEPT ![p].pc = "done", ![p].from = "api",
                                                   ![p].resp = resp, ![p].write = w,
                                                   ![p].result = r.obj]
    /\ UNCHANGED <<now, cacheDir, keys, active>>
    /\ UNCHANGED <<configVars, tierVars>>

\* The rest of Locationforecast: the response arrives, loadDataFromApi
\* interprets it, and on success the memory slot and then the disk cache are
\* updated.
ReceiveResponse(p) ==
    /\ call[p].pc = "wait"
    /\ \E resp \in Responses(call[p].key),
          w \in IF cacheDir = "" THEN {"ok"} ELSE DiskWrites :
        /\ WellFormed(resp, call[p].ims)
        /\ KeepsOrder(resp, call[p].key)
        /\ upstream' = Sent(resp, call[p].key)
        /\ UNCHANGED calls
        /\ LET r == HandleResponse(resp, call[p].prior)
               k == call[p].key
           IN IF r.err # ""
              THEN /\ w = "ok"
                   /\ call' = [call EXCEPT ![p].pc = "done", ![p].from = "error",
                                           ![p].resp = resp, ![p].err = r.err,
                                           ![p].code = r.code]
                   /\ UNCHANGED <<lastLocationforecastResult,
                                  lastLocationforecastCacheInfo, cacheFile, cacheInfoFile>>
              ELSE /\ lastLocationforecastResult' = r.obj
                   /\ lastLocationforecastCacheInfo' = r.info
                   /\ cacheFile' = saveResult(cacheFile, k, r.obj, w)
                   /\ cacheInfoFile' = saveCacheInfo(cacheInfoFile, k, r.info, w)
                   /\ call' = [call EXCEPT ![p] =
                          IF updateDiskCacheFails(w)
                          THEN [@ EXCEPT !.pc = "done", !.from = "error", !.resp = resp,
                                         !.write = w, !.err = "update"]
                          ELSE [@ EXCEPT !.pc = "done", !.from = "api", !.resp = resp,
                                         !.write = w, !.result = r.obj]]
    /\ UNCHANGED <<now, cacheDir, keys, active>>
    /\ UNCHANGED <<configVars, tierVars>>

\* ------------------------------------------------------------ environment
\* Time passes.
Tick ==
    /\ now < MaxTime
    /\ now' = now + 1
    /\ UNCHANGED <<cacheDir, lastLocationforecastResult, lastLocationforecastCacheInfo,
                   cacheFile, cacheInfoFile, keys, active, call, calls, upstream>>
    /\ UNCHANGED <<configVars, tierVars>>

\* The memory slot is emptied (as the test does, and as a restart of the
\* process does).
ClearMemory ==
    /\ NoCallRunning
    /\ lastLocationforecastResult # NilDoc
    /\ lastLocationforecastResult' = NilDoc
    /\ lastLocationforecastCacheInfo' = ZeroInfo
    /\ call' = Forgotten
    /\ UNCHANGED <<now, cacheDir, cacheFile, cacheInfoFile, keys, active, calls, upstream>>
    /\ UNCHANGED <<configVars, tierVars>>

Next ==
    \/ \E p \in Callers, k \in Keys : Locationforecast(p, k)
    \/ \E p \in Callers : SendRequest(p)
    \/ \E p \in Callers : ReceiveResponse(p)
    \/ Tick
    \/ ClearMemory

Spec == Init /\ [][Next]_vars
SpecKeys == InitKeys /\ [][Next]_vars

\* The service is used for two locations, with an api that never sends, for a
\* key, a Last-Modified older than one it sent before for that key.
InitInOrder ==
    /\ service = Constructed("https://github.com/Roemer/metgo")
    /\ NoTierUse
    /\ now = TicksPerSec
    /\ cacheDir \in {"", ".metno-cache"}
    /\ lastLocationforecastResult = NilDoc
    /\ lastLocationforecastCacheInfo = ZeroInfo
    /\ cacheFile = [k \in Keys |-> MissingFile]
    /\ cacheInfoFile = [k \in Keys |-> MissingFile]
    /\ keys = Keys
    /\ active = {1}
    /\ call = [p \in Callers |-> IdleCall]
    /\ upstream = InOrder
    /\ calls = NotCounted

SpecInOrder == InitInOrder /\ [][Next]_vars

\* Two callers (goroutines) use the one service, for one location.
InitCallers ==
    /\ service = Constructed("https://github.com/Roemer/metgo")
    /\ NoTierUse
    /\ now = MaxTime - 1
    /\ cacheDir \in {"", ".metno-cache"}
    /\ lastLocationforecastResult = NilDoc
    /\ lastLocationforecastCacheInfo = ZeroInfo
    /\ cacheFile = [k \in Keys |-> MissingFile]
    /\ cacheInfoFile = [k \in Keys |-> MissingFile]
    /\ keys = {1}
    /\ active = Callers
    /\ call = [p \in Callers |-> IdleCall]
    /\ upstream = AnyOrder
    /\ calls = Counted

SpecCallers == InitCallers /\ [][Next]_vars

\* The cache directory is shared: another MetNoService that was given the
\* same cacheDirectory (in this process or in another one) has fetched a
\* document for key k and stores it with updateDiskCache.
OtherServiceStores(k, expires, lastModified) ==
    /\ cacheDir # ""
    /\ k \in keys
    /\ lastModified \in PastSeconds
    /\ NoCallRunning
    /\ cacheFile' = [cacheFile EXCEPT ![k] = MarshalDoc(Doc(k, lastModified))]
    /\ cacheInfoFile' = [cacheInfoFile EXCEPT ![k] =
                            MarshalInfo(cacheInfo(ParseRFC1123(expires),
                                                  ParseRFC1123(lastModified)))]
    /\ UNCHANGED <<now, cacheDir, lastLocationforecastResult,
                   lastLocationforecastCacheInfo, keys, active, call, calls, upstream>>
    /\ UNCHANGED <<configVars, tierVars>>

NextShared ==
    \/ Next
    \/ \E k \in Keys, expires \in Seconds, lastModified \in Seconds :
          OtherServiceStores(k, expires, lastModified)

SpecShared == Init /\ [][NextShared]_vars

\* The program from the start: NewMetNoService is called once, with any
\* siteName, and the service it returns (if any) is used.
InitNew ==
    /\ service = NotConstructed
    /\ NoTierUse
    /\ now = TicksPerSec
    /\ cacheDir = ""
    /\ lastLocationforecastResult = NilDoc
    /\ lastLocationforecastCacheInfo = ZeroInfo
    /\ cacheFile = [k \in Keys |-> MissingFile]
    /\ cacheInfoFile = [k \in Keys |-> MissingFile]
    /\ keys = {1}
    /\ active = {1}
    /\ call = [p \in Callers |-> IdleCall]
    /\ upstream = AnyOrder
    /\ calls = NotCounted

NewMetNoService(siteName, cacheDirectory) ==
    /\ service.st = "none"
    /\ service' = Constructed(siteName)
    /\ cacheDir' = IF siteNameDefined(siteName) THEN cacheDirectory ELSE cacheDir
    /\ UNCHANGED <<now, lastLocationforecastResult, lastLocationforecastCacheInfo,
                   cacheFile, cacheInfoFile, keys, active, call, calls, upstream>>
    /\ UNCHANGED tierVars

NextNew ==
    \/ \E siteName \in SiteNames, cacheDirectory \in {"", ".metno-cache"} :
          NewMetNoService(siteName, cacheDirectory)
    \/ Next

SpecNew == InitNew /\ [][NextNew]_vars

\* ------------------------------------------------ MemoryCache and DiskCache
\* The entries and metadata a caller stores: a document of the key and the
\* cacheInfo with the document's Last-Modified (and the last Expires).
TierInfos(d) ==
    {cacheInfo(ParseRFC1123(MaxSec), ParseRFC1123(d.ver))}
TierDocs(k) == {Doc(k, v) : v \in Seconds}

\* MemoryCache.GetCache
MemoryGetCache(c, k) ==
    [obj |-> MapGet(c.CacheObject, k, NilDoc),
     info |-> MapGet(c.CacheInfoObject, k, ZeroInfo), err |-> FALSE]

\* MemoryCache.SetCache: m.CacheObject[cacheName] = cacheObject, and then
\* m.CacheInfoObject[cacheName] = cacheInfoObject.
MemorySetCacheObject(c, k, obj) == [c EXCEPT !.CacheObject = MapSet(@, k, obj)]
MemorySetCacheInfoObject(c, k, info) == [c EXCEPT !.CacheInfoObject = MapSet(@, k, info)]

\* MemoryCache.ClearCache
MemoryClearCache(c, k) ==
    [c EXCEPT !.CacheObject = MapDelete(@, k), !.CacheInfoObject = MapDelete(@, k)]

\* readJsonFromFile(filePath, false) of metgo_cache.go.
decodeJsonFile(f) ==
    IF f.st = "missing"
    THEN [nil |-> TRUE, err |-> FALSE, val |-> ZeroDoc, info |-> ZeroInfo]
    ELSE IF f.st = "corrupt"
    THEN [nil |-> TRUE, err |-> TRUE, val |-> ZeroDoc, info |-> ZeroInfo]
    ELSE [nil |-> FALSE, err |-> FALSE, val |-> f.val, info |-> f.info]

\* DiskCache.GetCache
DiskGetCache(c, files, k) ==
    IF c.CacheDirectory = "" THEN NoCacheData
    ELSE LET d == decodeJsonFile(files.data[k])
             i == decodeJsonFile(files.info[k])
         IN IF d.err THEN CacheError
            ELSE IF d.nil THEN NoCacheData
            ELSE IF i.err THEN CacheError
            ELSE IF i.nil THEN NoCacheData
            ELSE [obj |-> d.val, info |-> i.info, err |-> FALSE]

\* DiskCache.SetCache: the data file is written, then the info file; w tells
\* which step fails, if any ("failResult": MkdirAll or the first write).
DiskSetCache(c, files, k, obj, info, w) ==
    IF c.CacheDirectory = "" \/ w = "failResult" THEN files
    ELSE IF w = "failInfo" THEN [files EXCEPT !.data[k] = MarshalDoc(obj)]
    ELSE [files EXCEPT !.data[k] = MarshalDoc(obj), !.info[k] = MarshalInfo(info)]

DiskSetCacheFails(c, w) == c.CacheDirectory # "" /\ w # "ok"

\* os.Remove(path): the file is gone afterwards unless the removal fails.
osRemove(f, readOnly) == IF readOnly THEN f ELSE MissingFile

\* DiskCache.ClearCache: both files are removed, whatever CacheDirectory is
\* (filepath.Join("", name) is name, a path in the working directory).
DiskClearCache(c, files, k) ==
    [files EXCEPT !.data[k] = osRemove(@, files.readOnly),
                  !.info[k] = osRemove(@, files.readOnly)]

\* A ClearCache that returns the error of an os.Remove that fails.
DiskClearCacheFailsWithRemove(c, files, k) ==
    \/ files.readOnly
    \/ files.data[k].st = "missing"
    \/ files.info[k].st = "missing"

\* The error DiskCache.ClearCache returns: none, whatever os.Remove returned.
DiskClearCacheFails(c, files, k) == FALSE

CacheGet(c, files, k) ==
    IF c.impl = "MemoryCache" THEN MemoryGetCache(c, k) ELSE DiskGetCache(c, files, k)

NoOpRunning == \A p \in Callers : op[p].pc \in {"idle", "done"}

GetCache(p, k) ==
    /\ p \in active
    /\ k \in keys
    /\ op[p].pc \in {"idle", "done"}
    /\ op' = [op EXCEPT ![p] = [IdleOp EXCEPT !.pc = "done", !.name = "GetCache", !.key = k,
                                              !.res = CacheGet(cache, fs, k)]]
    /\ UNCHANGED <<cache, fs, lastSet, serviceVars, configVars>>

SetCache(p, k, obj, info) ==
    /\ p \in active
    /\ k \in keys
    /\ op[p].pc \in {"idle", "done"}
    /\ IF cache.impl = "MemoryCache"
       THEN /\ cache' = MemorySetCacheObject(cache, k, obj)
            /\ op' = [op EXCEPT ![p] = [IdleOp EXCEPT !.pc = "set2", !.name = "SetCache",
                                                      !.key = k, !.obj = obj, !.info = info]]
            /\ lastSet' = [lastSet EXCEPT ![k] = NeverSet]
            /\ UNCHANGED fs
       ELSE \E w \in IF cache.CacheDirectory = "" THEN {"ok"} ELSE DiskWrites :
            /\ fs' = DiskSetCache(cache, fs, k, obj, info, w)
            /\ op' = [op EXCEPT ![p] = [IdleOp EXCEPT !.pc = "done", !.name = "SetCache",
                                                      !.key = k, !.obj = obj, !.info = info,
                                                      !.res = IF DiskSetCacheFails(cache, w)
                                                              THEN CacheError
                                                              ELSE NoCacheData]]
            /\ lastSet' = [lastSet EXCEPT ![k] =
                              [st |-> IF w = "ok" THEN "ok"
                                      ELSE IF w = "failInfo" THEN "partial" ELSE "none",
                               obj |-> obj, info |-> info]]
            /\ UNCHANGED cache
    /\ UNCHANGED <<serviceVars, configVars>>

\* The second assignment of MemoryCache.SetCache, and its return.
SetCacheInfoObject(p) ==
    /\ op[p].pc = "set2"
    /\ cache' = MemorySetCacheInfoObject(cache, op[p].key, op[p].info)
    /\ op' = [op EXCEPT ![p].pc = "done"]
    /\ lastSet' = [lastSet EXCEPT ![op[p].key] =
                      [st |-> "ok", obj |-> op[p].obj, info |-> op[p].info]]
    /\ UNCHANGED <<fs, serviceVars, configVars>>

ClearCache(p, k) ==
    /\ p \in active
    /\ k \in keys
    /\ op[p].pc \in {"idle", "done"}
    /\ IF cache.impl = "MemoryCache"
       THEN /\ cache' = MemoryClearCache(cache, k)
            /\ op' = [op EXCEPT ![p] = [IdleOp EXCEPT !.pc = "done", !.name = "ClearCache",
                                                      !.key = k]]
            /\ UNCHANGED fs
       ELSE /\ fs' = DiskClearCache(cache, fs, k)
            /\ op' = [op EXCEPT ![p] = [IdleOp EXCEPT !.pc = "done", !.name = "ClearCache",
                                                      !.key = k,
                                                      !.res = IF DiskClearCacheFails(cache, fs, k)
                                                              THEN CacheError
                                                              ELSE NoCacheData]]
            /\ UNCHANGED cache
    /\ lastSet' = [lastSet EXCEPT ![k] = NeverSet]
    /\ UNCHANGED <<serviceVars, configVars>>

\* A file of the cache is damaged (cut short, overwritten with something that
\* is no JSON).
DamageFile(k, which) ==
    /\ cache.impl = "DiskCache"
    /\ NoOpRunning
    /\ fs[which][k].st = "ok"
    /\ fs' = [fs EXCEPT ![which][k] = CorruptFile]
    /\ op' = NoOps
    /\ lastSet' = [lastSet EXCEPT ![k] = NeverSet]
    /\ UNCHANGED <<cache, serviceVars, configVars>>

\* With no CacheDirectory the paths are in the working directory, which is
\* not the cache's alone: files with these names are put there by others.
ForeignFiles(k, obj, info) ==
    /\ cache.impl = "DiskCache"
    /\ cache.CacheDirectory = ""
    /\ NoOpRunning
    /\ fs' = [fs EXCEPT !.data[k] = MarshalDoc(obj), !.info[k] = MarshalInfo(info)]
    /\ op' = NoOps
    /\ UNCHANGED <<cache, lastSet, serviceVars, configVars>>

\* The directory is made read-only, or writable again.
SetReadOnly(b) ==
    /\ cache.impl = "DiskCache"
    /\ NoOpRunning
    /\ fs.readOnly # b
    /\ fs' = [fs EXCEPT !.readOnly = b]
    /\ op' = NoOps
    /\ UNCHANGED <<cache, lastSet, serviceVars, configVars>>

\* One caller uses a cache of any of the kinds, for two keys.
InitTiers ==
    /\ service = Constructed("https://github.com/Roemer/metgo")
    /\ now = TicksPerSec
    /\ cacheDir = ""
    /\ lastLocationforecastResult = NilDoc
    /\ lastLocationforecastCacheInfo = ZeroInfo
    /\ cacheFile = [k \in Keys |-> MissingFile]
    /\ cacheInfoFile = [k \in Keys |-> MissingFile]
    /\ keys = Keys
    /\ active = {1}
    /\ call = [p \in Callers |-> IdleCall]
    /\ upstream = AnyOrder
    /\ calls = NotCounted
    /\ cache \in {NewMemoryCache, NewDiskCache(""), NewDiskCache(".metno-cache")}
    /\ fs = NoFiles
    /\ op = NoOps
    /\ lastSet = [k \in Keys |-> NeverSet]

NextTiers ==
    \/ \E p \in Callers, k \in Keys : GetCache(p, k)
    \/ \E p \in Callers, k \in Keys : \E obj \in TierDocs(k) : \E info \in TierInfos(obj) :
          SetCache(p, k, obj, info)
    \/ \E p \in Callers : SetCacheInfoObject(p)
    \/ \E p \in Callers, k \in Keys : ClearCache(p, k)
    \/ \E k \in Keys, which \in {"data", "info"} : DamageFile(k, which)
    \/ \E k \in Keys : \E obj \in TierDocs(k) : \E info \in TierInfos(obj) :
          ForeignFiles(k, obj, info)
    \/ \E b \in BOOLEAN : SetReadOnly(b)

SpecTiers == InitTiers /\ [][NextTiers]_vars

\* Two callers share one MemoryCache, for one key.
InitMemory ==
    /\ service = Constructed("https://github.com/Roemer/metgo")
    /\ now = TicksPerSec
    /\ cacheDir = ""
    /\ lastLocationforecastResult = NilDoc
    /\ lastLocationforecastCacheInfo = ZeroInfo
    /\ cacheFile = [k \in Keys |-> MissingFile]
    /\ cacheInfoFile = [k \in Keys |-> MissingFile]
    /\ keys = {1}
    /\ active = Callers
    /\ call = [p \in Callers |-> IdleCall]
    /\ upstream = AnyOrder
    /\ calls = NotCounted
    /\ cache = NewMemoryCache
    /\ fs = NoFiles
    /\ op = NoOps
    /\ lastSet = [k \in Keys |-> NeverSet]

NextMemory ==
    \/ \E p \in Callers, k \in Keys : GetCache(p, k)
    \/ \E p \in Callers, k \in Keys : \E obj \in TierDocs(k) : \E info \in TierInfos(obj) :
          SetCache(p, k, obj, info)
    \/ \E p \in Callers : SetCacheInfoObject(p)
    \/ \E p \in Callers, k \in Keys : ClearCache(p, k)

SpecMemory == InitMemory /\ [][NextMemory]_vars


\* ------------------------------------------------------------------ claims
\* What the disk tier holds for key k: what a read of its two files yields
\* when no read fails.
DiskEntry(k) == loadDataFromCache(cacheDir, cacheFile[k], cacheInfoFile[k], "none")
DiskHolds(k) == DiskEntry(k).obj # NilDoc
\* The memory slot held, when call c was made, a document for the key of c.
MemHeld(c) == c.preMem.kind = "doc" /\ c.preMem.key = c.key
\* Expires had not passed at instant t.
NotPassed(expires, t) == expires >= t
MemFresh(c) == MemHeld(c) /\ NotPassed(c.preMemInfo.Expires, c.preNow)
DiskFresh(c) == DiskHolds(c.key) /\ NotPassed(DiskEntry(c.key).info.Expires, c.preNow)
\* The cache lookup of call c is over and the call has not written the disk
\* cache: the files are those the lookup saw.
LookupOver(c) == c.pc \in {"api", "wait"} \/ (c.pc = "done" /\ c.requests = 0)
\* A disk read the lookup of call c made has failed.
ReadFailed(c) == c.pc = "done" /\ c.err = "cache"

\* C1: if, when Locationforecast is called, a tier holds an entry for the key
\* whose Expires has not passed, the call sends no request and returns the
\* entry of the first such tier (or a newer entry for the key found in an
\* earlier tier).
C1_FreshnessShortCircuit ==
    \A p \in Callers :
        LET c == call[p]
            disk == DiskEntry(c.key)
        IN (LookupOver(c) /\ ~ReadFailed(c) /\ (MemFresh(c) \/ DiskFresh(c))) =>
              /\ c.pc = "done"
              /\ c.requests = 0
              /\ IF MemFresh(c) THEN c.result = c.preMem
                 ELSE \/ c.result = disk.obj
                      \/ /\ MemHeld(c)
                         /\ c.preMemInfo.LastModified > disk.info.LastModified
                         /\ c.result = c.preMem

\* C2: if, when Locationforecast is called, the memory tier holds nothing for
\* the key and the disk tier holds an entry whose Expires has not passed, the
\* call returns the disk entry, sends no request, and leaves the disk entry
\* and its metadata in the memory tier.
C2_PromotionOnDiskHit ==
    \A p \in Callers :
        LET c == call[p]
            disk == DiskEntry(c.key)
        IN (LookupOver(c) /\ ~ReadFailed(c) /\ ~MemHeld(c) /\ DiskFresh(c)) =>
              /\ c.pc = "done"
              /\ c.requests = 0
              /\ c.result = disk.obj
              /\ lastLocationforecastResult = disk.obj
              /\ lastLocationforecastCacheInfo = disk.info


\* The metadata loadDataFromApi parses from the date headers of a response.
ParsedInfo(resp) ==
    cacheInfo(ParseRFC1123(resp.expires.sec), ParseRFC1123(resp.lastModified.sec))
DatesValid(resp) == resp.expires.st = "date" /\ resp.lastModified.st = "date"
\* The memory tier, and the disk tier if there is one, hold document d with
\* metadata i for key k.
TiersHold(k, d, i) ==
    /\ lastLocationforecastResult = d
    /\ lastLocationforecastCacheInfo = i
    /\ cacheDir # "" => (DiskEntry(k).obj = d /\ DiskEntry(k).info = i)
\* Call c has returned a document it fetched.
Fetched(c) == c.pc = "done" /\ c.from = "api"

\* C3: when Locationforecast has fetched from the network and returned a
\* document, every configured tier holds for the key exactly the returned
\* document and the metadata parsed from the response.
C3_WriteAllAfterFetch ==
    \A p \in Callers :
        LET c == call[p]
        IN Fetched(c) =>
              /\ c.requests = 1
              /\ c.result # NilDoc
              /\ TiersHold(c.key, c.result, ParsedInfo(c.resp))

\* C3 witness: a fetch has returned a document that differs from the one the
\* tiers held, and the disk tier is configured.
C3_Witness ==
    \E p \in Callers :
        /\ Fetched(call[p])
        /\ cacheDir # ""
        /\ call[p].prior # NilDoc
        /\ call[p].result # call[p].prior
        /\ call[p].priorInfo # ParsedInfo(call[p].resp)

\* C4: a 304 response with both dates yields the prior document with the
\* metadata of the response, a 2xx response with both dates and a decodable
\* body yields the document and the metadata of the response; that is what
\* Locationforecast returns and what the tiers hold.
C4_NotModifiedKeepsEntry ==
    \A p \in Callers :
        LET c == call[p]
            answered == c.pc = "done" /\ c.requests = 1 /\ ~c.resp.transport
                        /\ DatesValid(c.resp) /\ c.err # "update"
        IN /\ (answered /\ c.resp.status = 304) =>
                 /\ c.from = "api"
                 /\ c.result = c.prior
                 /\ TiersHold(c.key, c.prior, ParsedInfo(c.resp))
           /\ (answered /\ c.resp.status = 200 /\ c.resp.bodyOk) =>
                 /\ c.from = "api"
                 /\ c.result = c.resp.body
                 /\ TiersHold(c.key, c.resp.body, ParsedInfo(c.resp))

\* C4 witness: a 304 response has replaced the metadata of a document that
\* the call returned unchanged.
C4_Witness ==
    \E p \in Callers :
        /\ Fetched(call[p])
        /\ call[p].resp.status = 304
        /\ call[p].result = call[p].prior
        /\ call[p].priorInfo # lastLocationforecastCacheInfo
        /\ cacheDir # ""

\* C5: the request carries If-Modified-Since exactly when there is a prior
\* document whose metadata has a LastModified that is not zero, the header is
\* that LastModified, and the request is unconditional when no tier held an
\* entry for the key.
C5_ConditionalHeader ==
    \A p \in Callers :
        LET c == call[p]
        IN c.requests = 1 =>
              /\ c.ims # NoHeader <=>
                    (c.prior # NilDoc /\ c.priorInfo.LastModified # ZeroTime)
              /\ c.ims # NoHeader =>
                    ParseRFC1123(c.ims.sec) = c.priorInfo.LastModified
              /\ (c.pc = "wait" /\ ~MemHeld(c) /\ ~DiskHolds(c.key)) =>
                    c.ims = NoHeader

\* C6: when tiers hold entries for the key and all of them are expired,
\* Locationforecast returns nothing from the cache and revalidates the one
\* with the greatest LastModified.
C6_RevalidatesBestCandidate ==
    \A p \in Callers :
        LET c == call[p]
            disk == DiskEntry(c.key)
            mem == [obj |-> c.preMem, info |-> c.preMemInfo]
            candidates == (IF MemHeld(c) THEN {mem} ELSE {})
                          \cup (IF DiskHolds(c.key)
                                THEN {[obj |-> disk.obj, info |-> disk.info]}
                                ELSE {})
            best == {x \in candidates :
                        \A y \in candidates :
                            x.info.LastModified >= y.info.LastModified}
        IN (LookupOver(c) /\ ~ReadFailed(c) /\ candidates # {}
            /\ ~MemFresh(c) /\ ~DiskFresh(c)) =>
              /\ c.pc \in {"api", "wait"}
              /\ c.pc = "wait" =>
                    [obj |-> c.prior, info |-> c.priorInfo] \in best


HeaderErrors ==
    {"no Expires header", "parse Expires", "no Last-Modified header", "parse Last-Modified"}
Success(status) == status >= 200 /\ status < 300

\* C7: when the response to a call is 2xx or 304 and its Expires or its
\* Last-Modified header is absent or malformed, the call returns a header
\* error and no document, and neither the memory tier nor the disk tier
\* changes.
C7_MandatoryHeaders ==
    [][\A p \in Callers :
          (/\ call[p].pc = "wait"
           /\ call'[p].pc = "done"
           /\ ~call'[p].resp.transport
           /\ (Success(call'[p].resp.status) \/ call'[p].resp.status = 304)
           /\ ~DatesValid(call'[p].resp))
          => /\ call'[p].err \in HeaderErrors
             /\ call'[p].result = NilDoc
             /\ UNCHANGED <<lastLocationforecastResult, lastLocationforecastCacheInfo,
                            cacheFile, cacheInfoFile>>]_vars

\* C7 witness: a revalidation of a cached document was answered 304 without a
\* usable date header, and the call returned a header error.
C7_Witness ==
    \E p \in Callers :
        /\ call[p].pc = "done"
        /\ call[p].resp.status = 304
        /\ ~DatesValid(call[p].resp)
        /\ call[p].err \in HeaderErrors
        /\ call[p].prior # NilDoc
        /\ cacheDir # ""

\* C8: whatever its headers, a response whose status is neither 304 nor 2xx
\* makes the call fail with an error that carries the status code, and no
\* document is returned.
C8_UpstreamErrorCarriesStatus ==
    \A p \in Callers :
        LET c == call[p]
        IN (/\ c.pc = "done" /\ c.requests = 1 /\ ~c.resp.transport
            /\ ~Success(c.resp.status) /\ c.resp.status # 304)
           => /\ c.err = "status"
              /\ c.code = c.resp.status
              /\ c.result = NilDoc

\* C9: a call in which a read of the disk tier failed, or in which a write of
\* the disk tier failed after the fetch, returns an error and no document.
C9_TierErrorsAreFatal ==
    \A p \in Callers :
        LET c == call[p]
            memoryHit == c.preMem # NilDoc /\ NotPassed(c.preMemInfo.Expires, c.preNow)
            getFailed == c.pc # "idle" /\ ~memoryHit /\ c.fault # "none"
            setFailed == c.write \in {"failResult", "failInfo"}
        IN (getFailed \/ setFailed) =>
              /\ c.pc = "done"
              /\ c.err \in {"cache", "update"}
              /\ c.result = NilDoc
              /\ c.from = "error"

\* C9 witness: a read of the disk tier failed in a call made while the memory
\* tier held an expired document, and the call returned the error.
C9_Witness ==
    \E p \in Callers :
        /\ call[p].pc = "done"
        /\ call[p].fault # "none"
        /\ call[p].preMem # NilDoc
        /\ call[p].err = "cache"
        /\ call[p].result = NilDoc

\* C10 as claimed: a call that follows a call for the same key that fetched
\* from the network finds data that is not expired in every configured tier.
C10_PromotionConvergence ==
    \A p \in Callers :
        LET c == call[p]
        IN (c.key # 0 /\ c.prev.key = c.key /\ LookupOver(c) /\ ~ReadFailed(c)) =>
              /\ c.preMem # NilDoc
              /\ NotPassed(c.preMemInfo.Expires, c.preNow)
              /\ cacheDir # "" => DiskFresh(c)

\* C10 as amended: a call that follows a call for the same key that fetched
\* and returned a document, and that is made while the Expires of that
\* response has not passed, finds data that is not expired in every
\* configured tier, and returns the memory tier's without a request.
C10_ConvergenceWhileNotExpired ==
    \A p \in Callers :
        LET c == call[p]
        IN (c.key # 0 /\ c.prev.key = c.key /\ c.pc # "idle"
            /\ NotPassed(c.prev.expires, c.preNow)) =>
              /\ c.preMem # NilDoc
              /\ NotPassed(c.preMemInfo.Expires, c.preNow)
              /\ cacheDir # "" => DiskFresh(c)
              /\ c.pc = "done"
              /\ c.from = "memory"
              /\ c.requests = 0
              /\ c.result = c.preMem

\* C10 witness: such a call was made after time had passed, and it was served
\* from the memory tier while the disk tier held the same entry.
C10_Witness ==
    \E p \in Callers :
        /\ call[p].pc = "done"
        /\ call[p].prev.key = call[p].key
        /\ call[p].key # 0
        /\ call[p].from = "memory"
        /\ call[p].preNow > TicksPerSec
        /\ cacheDir # ""
        /\ DiskEntry(call[p].key).obj = call[p].result

\* C11: a call for key k returns only a document that was fetched or stored
\* for k, and its If-Modified-Since is taken only from an entry of k.
C11_KeyIsolation ==
    \A p \in Callers :
        LET c == call[p]
        IN /\ (c.pc = "done" /\ c.result # NilDoc) =>
                 (c.result.kind = "doc" /\ c.result.key = c.key)
           /\ (c.requests = 1 /\ c.ims # NoHeader) => c.prior.key = c.key

\* C18: NewMetNoService returns an error and no service exactly when the
\* siteName it is given is empty, and a Locationforecast call is only ever made
\* on a service whose siteName is not empty.
C18_ConstructionNeedsSiteName ==
    /\ service.st # "none" => (service.st = "error" <=> service.siteName = "")
    /\ service.st # "none" => (service.st = "service" <=> service.siteName # "")
    /\ \A p \in Callers :
          call[p].pc # "idle" => (service.st = "service" /\ service.siteName # "")

\* C18 witness: NewMetNoService was given an empty siteName and returned an
\* error, and no call has been made.
C18_Witness ==
    /\ service.st = "error"
    /\ service.siteName = ""
    /\ \A p \in Callers : call[p].pc = "idle"

Configured == cache.impl = "DiskCache" /\ cache.CacheDirectory # ""
Disabled == cache.impl = "DiskCache" /\ cache.CacheDirectory = ""
\* Something is stored for key k in the cache.
TierHolds(k) ==
    IF cache.impl = "MemoryCache"
    THEN k \in DOMAIN cache.CacheObject \/ k \in DOMAIN cache.CacheInfoObject
    ELSE Configured /\ (fs.data[k].st # "missing" \/ fs.info[k].st # "missing")
Got(o) == o.pc = "done" /\ o.name = "GetCache"
Cleared(o) == o.pc = "done" /\ o.name = "ClearCache"

\* C12: GetCache of a disk cache returns absent and no error when the data
\* file is missing, and when the data file is there but the info file is
\* missing or cannot be decoded; it returns an entry only with the metadata
\* read from the info file.
C12_DiskGetAbsent ==
    \A p \in Callers :
        LET o == op[p]
            d == fs.data[o.key]
            i == fs.info[o.key]
        IN (Got(o) /\ Configured) =>
              /\ d.st = "missing" => o.res = NoCacheData
              /\ (d.st = "ok" /\ i.st \in {"missing", "corrupt"}) => o.res = NoCacheData
              /\ o.res.obj # NilDoc => (i.st = "ok" /\ o.res.info = i.info /\ ~o.res.err)

\* C13: after a SetCache on key k that wrote the data file and not the info
\* file, GetCache(k) returns absent.
C13_PartialWriteReadsAbsent ==
    \A p \in Callers :
        LET o == op[p]
        IN (Got(o) /\ Configured /\ lastSet[o.key].st = "partial") => o.res = NoCacheData

\* C14: every operation of a disk cache that has no CacheDirectory returns no
\* error and changes no file, and its GetCache returns absent.
C14_DisabledDiskIsNoOp ==
    [][Disabled =>
          \A p \in Callers :
              (op'[p] # op[p] /\ op'[p].pc = "done") =>
                  (fs' = fs /\ op'[p].res = NoCacheData)]_vars

\* C15: in a memory cache and in a disk cache with a CacheDirectory, GetCache
\* of a key returns exactly what the last SetCache on the key stored, when
\* that SetCache returned no error and no SetCache or ClearCache on the key
\* came after it.
C15_SetReplaces ==
    \A p \in Callers :
        LET o == op[p]
            set == lastSet[o.key]
        IN (Got(o) /\ ~Disabled /\ set.st = "ok") =>
              o.res = [obj |-> set.obj, info |-> set.info, err |-> FALSE]

\* C15 witness: a disk cache returned, for a key, the older of the documents,
\* which the last SetCache on the key had stored.
C15_Witness ==
    \E p \in Callers :
        /\ Got(op[p])
        /\ Configured
        /\ lastSet[op[p].key].st = "ok"
        /\ op[p].res.obj = lastSet[op[p].key].obj
        /\ op[p].res.obj.ver < MaxSec

\* What ClearCache(k) leaves of the cache and of the files.
AfterClear(c, files, k) ==
    IF c.impl = "MemoryCache"
    THEN [cache |-> MemoryClearCache(c, k), fs |-> files]
    ELSE [cache |-> c, fs |-> DiskClearCache(c, files, k)]

\* C16: ClearCache of a key for which nothing is stored returns no error and
\* leaves what is stored for every key as it is, and a second ClearCache of a
\* key leaves everything as the first one left it.
C16_ClearIsIdempotent ==
    /\ \A k \in Keys :
          LET once == AfterClear(cache, fs, k)
              twice == AfterClear(once.cache, once.fs, k)
          IN /\ (~Disabled /\ ~TierHolds(k)) => (once.cache = cache /\ once.fs = fs)
             /\ \A j \in Keys : ~TierHolds(k) =>
                    CacheGet(once.cache, once.fs, j) = CacheGet(cache, fs, j)
             /\ twice = once
    /\ \A p \in Callers : (Cleared(op[p]) /\ ~TierHolds(op[p].key)) => ~op[p].res.err

\* C16 witness: ClearCache returned for a key of a disk cache for which nothing
\* is stored, while an entry is stored for the other key.
C16_Witness ==
    \E p \in Callers :
        /\ Cleared(op[p])
        /\ Configured
        /\ ~TierHolds(op[p].key)
        /\ \E j \in Keys : j # op[p].key /\ CacheGet(cache, fs, j).obj # NilDoc

\* C17: when ClearCache(k) has returned no error, nothing is stored for k and
\* GetCache(k) returns absent.
C17_ClearRemoves ==
    \A p \in Callers :
        LET o == op[p]
        IN (Cleared(o) /\ ~o.res.err) =>
              (~TierHolds(o.key) /\ CacheGet(cache, fs, o.key) = NoCacheData)

\* C20: GetCache of a memory cache that callers share returns an entry only
\* with the metadata that was stored with it, and absent with no metadata.
C20_NoTornRead ==
    \A p \in Callers :
        LET o == op[p]
        IN (Got(o) /\ cache.impl = "MemoryCache") =>
              IF o.res.obj = NilDoc THEN o.res.info = ZeroInfo
              ELSE o.res.info \in TierInfos(o.res.obj)

\* ------------------------------------------- claims about the coordinator
\* The memory tier holds an entry for key k.
MemHolds(k) ==
    lastLocationforecastResult.kind = "doc" /\ lastLocationforecastResult.key = k

\* C21: with an api that never sends, for a key, a Last-Modified older than
\* one it sent before for that key, the LastModified that the memory tier and
\* the disk tier store for a key never decreases.
C21_LastModifiedNeverDecreases ==
    [][\A k \in Keys :
          /\ (MemHolds(k) /\ MemHolds(k)') =>
                 lastLocationforecastCacheInfo'.LastModified
                    >= lastLocationforecastCacheInfo.LastModified
          /\ (DiskHolds(k) /\ DiskHolds(k)') =>
                 DiskEntry(k)'.info.LastModified >= DiskEntry(k).info.LastModified]_vars

\* The entry of the memory tier, and the entries for key k among the tiers
\* that a scan for k visits: the memory tier, and the disk tier unless the
\* memory tier's entry has not expired.
MemEntry ==
    [obj |-> lastLocationforecastResult, info |-> lastLocationforecastCacheInfo,
     err |-> FALSE]
MemNotExpired(k) == MemHolds(k) /\ NotPassed(lastLocationforecastCacheInfo.Expires, now)
DiskNotExpired(k) == DiskHolds(k) /\ NotPassed(DiskEntry(k).info.Expires, now)
Visited(k) ==
    (IF MemHolds(k) THEN {MemEntry} ELSE {})
    \cup (IF ~MemNotExpired(k) /\ DiskHolds(k) THEN {DiskEntry(k)} ELSE {})
Newest(entries) ==
    {x \in entries : \A y \in entries : x.info.LastModified >= y.info.LastModified}
\* This step is a Locationforecast call of p that returns from the cache lookup.
ReturnsFromLookup(p) ==
    /\ call'[p] # call[p]
    /\ call'[p].pc = "done"
    /\ call'[p].requests = 0

\* C22: a call that returns a document of a tier that has not expired returns
\* the entry with the greatest LastModified among the entries of the tiers it
\* visited, the expired ones included (the memory tier's entry when it is
\* expired and newer than the disk tier's).
C22_BestCandidateOnShortCircuit ==
    [][\A p \in Callers :
          LET k == call'[p].key
          IN (/\ ReturnsFromLookup(p)
              /\ call'[p].err = ""
              /\ (MemNotExpired(k) \/ DiskNotExpired(k)))
             => call'[p].result \in {x.obj : x \in Newest(Visited(k))}]_vars

\* C23: a call that returns the disk tier's entry overwrites the memory tier
\* with that entry and its metadata when the memory tier holds nothing for the
\* key or an entry with an older LastModified, leaves the memory tier as it is
\* otherwise, and does not write the disk tier.
C23_BackfillOnFastPath ==
    [][\A p \in Callers :
          LET k == call'[p].key
              disk == DiskEntry(k)
          IN (ReturnsFromLookup(p) /\ call'[p].from = "disk") =>
                /\ call'[p].result = disk.obj
                /\ IF \/ ~MemHolds(k)
                      \/ lastLocationforecastCacheInfo.LastModified < disk.info.LastModified
                   THEN /\ lastLocationforecastResult' = disk.obj
                        /\ lastLocationforecastCacheInfo' = disk.info
                   ELSE UNCHANGED <<lastLocationforecastResult,
                                    lastLocationforecastCacheInfo>>
                /\ UNCHANGED <<cacheFile, cacheInfoFile>>]_vars

\* C24: a document that Locationforecast returns without having sent a request
\* is the entry of the memory tier or of the disk tier, and the Expires stored
\* with it in that tier had not passed when the call was made.
C24_NoStaleResultWithoutRevalidation ==
    \A p \in Callers :
        LET c == call[p]
            disk == DiskEntry(c.key)
        IN (c.pc = "done" /\ c.requests = 0 /\ c.result # NilDoc) =>
              \/ /\ c.from = "memory"
                 /\ c.result = c.preMem
                 /\ NotPassed(c.preMemInfo.Expires, c.preNow)
              \/ /\ c.from = "disk"
                 /\ c.result = disk.obj
                 /\ NotPassed(disk.info.Expires, c.preNow)

\* C24 witness: a call made at the very instant of the Expires of the disk
\* tier's entry, with nothing in the memory tier, returned that entry.
C24_Witness ==
    \E p \in Callers :
        /\ call[p].pc = "done"
        /\ call[p].requests = 0
        /\ call[p].from = "disk"
        /\ call[p].preMem = NilDoc
        /\ call[p].result = DiskEntry(call[p].key).obj
        /\ DiskEntry(call[p].key).info.Expires = call[p].preNow

\* C25: a Locationforecast call sends at most one request: the request is sent
\* by a call that has sent none, and whatever the response is, the call
\* returns when it arrives.
C25_NoRetry ==
    [][\A p \in Callers :
          /\ call'[p].requests <= 1
          /\ call'[p].requests > call[p].requests =>
                 (call[p].pc = "api" /\ call[p].requests = 0 /\ call'[p].pc = "wait")
          /\ (call[p].pc = "wait" /\ call'[p] # call[p]) =>
                 (call'[p].pc = "done" /\ call'[p].requests = 1)]_vars

\* C25 witness: a call whose one request failed in transport has returned the
\* error.
C25_Witness ==
    \E p \in Callers :
        /\ call[p].pc = "done"
        /\ call[p].requests = 1
        /\ call[p].resp.transport
        /\ call[p].err = "transport"
        /\ call[p].result = NilDoc

\* C26: a call made while the memory tier holds an entry for the key whose
\* Expires has not passed returns that entry without reading the disk tier:
\* it returns no error even when the files of the disk tier cannot be read,
\* and it sends no request.
C26_MemoryBeforeDisk ==
    \A p \in Callers :
        LET c == call[p]
        IN (c.pc # "idle" /\ MemFresh(c)) =>
              /\ c.pc = "done"
              /\ c.from = "memory"
              /\ c.err = ""
              /\ c.result = c.preMem
              /\ c.requests = 0

\* C26 witness: the disk tier could not be read when a call was made, and
\* the call returned the memory tier's entry.
C26_Witness ==
    \E p \in Callers :
        /\ call[p].pc = "done"
        /\ MemFresh(call[p])
        /\ call[p].fault # "none"
        /\ cacheDir # ""
        /\ call[p].from = "memory"
        /\ call[p].result = call[p].preMem

\* C27: a call that returns the error of a read of the disk tier has sent no
\* request and has changed neither the memory tier nor the files of the disk
\* tier.
C27_ReadErrorChangesNothing ==
    [][\A p \in Callers :
          (call'[p] # call[p] /\ call'[p].pc = "done" /\ call'[p].err = "cache") =>
              /\ call'[p].requests = 0
              /\ call'[p].result = NilDoc
              /\ UNCHANGED <<lastLocationforecastResult, lastLocationforecastCacheInfo,
                             cacheFile, cacheInfoFile>>]_vars

\* C27 witness: the read of the info file failed in a call made while the
\* memory tier held an expired entry and the disk tier held an entry; the call
\* returned the error and the memory tier still holds its entry.
C27_Witness ==
    \E p \in Callers :
        /\ call[p].pc = "done"
        /\ call[p].err = "cache"
        /\ call[p].requests = 0
        /\ call[p].fault = "info"
        /\ call[p].preMem # NilDoc
        /\ lastLocationforecastResult = call[p].preMem
        /\ DiskHolds(call[p].key)

\* The fetch cannot succeed with this response: a transport error, a date
\* header that is absent or malformed, a status that is neither 2xx nor 304,
\* or a 2xx body that cannot be decoded.
FailedResponse(resp) ==
    \/ resp.transport
    \/ ~DatesValid(resp)
    \/ (~Success(resp.status) /\ resp.status # 304)
    \/ (Success(resp.status) /\ ~resp.bodyOk)

\* C28: when the response to a call is a failed one, the call returns an
\* error and no document, and the response changes neither the files of the
\* disk tier nor the memory tier, which holds what it held when the call was
\* made or the disk tier's entry, promoted by the lookup.
C28_FailedFetchWritesNothing ==
    [][\A p \in Callers :
          (call[p].pc = "wait" /\ call'[p] # call[p] /\ FailedResponse(call'[p].resp)) =>
              /\ call'[p].pc = "done"
              /\ call'[p].err \notin {"", "cache", "update"}
              /\ call'[p].result = NilDoc
              /\ UNCHANGED <<lastLocationforecastResult, lastLocationforecastCacheInfo,
                             cacheFile, cacheInfoFile>>
              /\ \/ /\ lastLocationforecastResult' = call[p].preMem
                    /\ lastLocationforecastCacheInfo' = call[p].preMemInfo
                 \/ /\ lastLocationforecastResult' = DiskEntry(call[p].key).obj
                    /\ lastLocationforecastCacheInfo' = DiskEntry(call[p].key).info]_vars

\* C28 witness: the body of a 200 response with both dates could not be
\* decoded; the call returned the error, and the memory tier holds the expired
\* entry that the lookup promoted from the disk tier.
C28_Witness ==
    \E p \in Callers :
        /\ call[p].pc = "done"
        /\ call[p].err = "decode"
        /\ call[p].resp.status = 200
        /\ DatesValid(call[p].resp)
        /\ call[p].preMem = NilDoc
        /\ lastLocationforecastResult # NilDoc
        /\ lastLocationforecastResult = DiskEntry(call[p].key).obj
        /\ lastLocationforecastCacheInfo = DiskEntry(call[p].key).info

\* What a call keeps of a response that can be stored.
FetchedDoc(c) == IF c.resp.status = 304 THEN c.prior ELSE c.resp.body

\* C29: when the disk update after a fetch fails, the call returns an error
\* and no document while the memory tier holds the fetched document and
\* metadata; the next call for the key, if made before that Expires has
\* passed, returns the fetched document from the memory tier, sends no request
\* and writes no file.
C29_MemoryWrittenBeforeDisk ==
    [][\A p \in Callers :
          /\ (call[p].pc = "wait" /\ call'[p].write \in {"failResult", "failInfo"}) =>
                 /\ call'[p].pc = "done"
                 /\ call'[p].err = "update"
                 /\ call'[p].result = NilDoc
                 /\ lastLocationforecastResult' = FetchedDoc(call'[p])
                 /\ lastLocationforecastCacheInfo' = ParsedInfo(call'[p].resp)
          /\ (/\ call[p].pc = "done"
              /\ call[p].err = "update"
              /\ call'[p] # call[p]
              /\ call'[p].pc # "idle"
              /\ call'[p].key = call[p].key
              /\ NotPassed(ParsedInfo(call[p].resp).Expires, now)) =>
                 /\ call'[p].pc = "done"
                 /\ call'[p].err = ""
                 /\ call'[p].result = FetchedDoc(call[p])
                 /\ call'[p].requests = 0
                 /\ UNCHANGED <<cacheFile, cacheInfoFile>>]_vars

\* C29 witness: a call was served from the memory tier with a document that
\* the disk tier does not hold, the disk update after its fetch having failed.
C29_Witness ==
    \E p \in Callers :
        /\ call[p].pc = "done"
        /\ call[p].from = "memory"
        /\ call[p].requests = 0
        /\ cacheDir # ""
        /\ call[p].result # NilDoc
        /\ DiskEntry(call[p].key).obj # call[p].result

\* C30: nothing makes a caller wait for another caller's fetch: while a
\* request for a key is in flight or about to be sent, another caller can make
\* a call for the key (as long as calls are made at all), and a caller whose
\* lookup found nothing to return can send its own request.
C30_NoSingleFlight ==
    \A p \in Callers, q \in Callers :
        (p # q /\ call[q].pc \in {"api", "wait"}) =>
            /\ (call[p].pc \in {"idle", "done"} /\ MoreCalls) =>
                    ENABLED Locationforecast(p, call[q].key)
            /\ (call[p].pc = "api" /\ call[p].key = call[q].key) => ENABLED SendRequest(p)

\* C30 witness: two callers have made a call for the same key while no tier
\* held an entry that was not expired, and the requests of both are in flight.
C30_Witness ==
    \E p \in Callers, q \in Callers :
        /\ p # q
        /\ call[p].pc = "wait"
        /\ call[q].pc = "wait"
        /\ call[p].key = call[q].key
        /\ call[p].requests = 1
        /\ call[q].requests = 1
        /\ call[p].preMem # NilDoc
        /\ call[q].preMem # NilDoc
        /\ ~NotPassed(call[p].preMemInfo.Expires, call[p].preNow)
        /\ ~NotPassed(call[q].preMemInfo.Expires, call[q].preNow)

\* C31: a call returns the entry of a tier without scanning further exactly
\* when the Expires of that entry is strictly after the instant of the call:
\* the memory tier's entry is returned if and only if the tier holds one whose
\* Expires is after that instant, and the disk tier's entry if and only if the
\* memory tier's was not returned and the disk tier holds one whose Expires is
\* after that instant. An entry whose Expires is the instant of the call is
\* expired and is not returned.
C31_ExpiryBoundary ==
    \A p \in Callers :
        LET c == call[p]
            disk == DiskEntry(c.key)
            memAhead == MemHeld(c) /\ c.preMemInfo.Expires > c.preNow
            diskAhead == DiskHolds(c.key) /\ disk.info.Expires > c.preNow
        IN (c.key # 0 /\ LookupOver(c) /\ ~ReadFailed(c)) =>
              /\ (c.pc = "done" /\ c.from = "memory") <=> memAhead
              /\ (c.pc = "done" /\ c.from = "disk") <=> (~memAhead /\ diskAhead)

====
